---- MODULE Spec2Model ----
(***************************************************************************)
(* State-machine model of the StarGym back office: the member store, the   *)
(* payment-order store, the payment service (createPayment,                *)
(* markPaymentPaid, markPaymentFailed), the webhook route, the member      *)
(* controller (register, approvePayment, updateUser, deleteUser,           *)
(* renewMembership, rejectRenewal, addMembershipHistory), the settings     *)
(* controller (updateSettings) with the price lookup of the formatters,    *)
(* the revenue query and the expiry sweep.                                 *)
(*                                                                         *)
(* A document save is modelled the way mongoose performs it: only the      *)
(* paths the handler assigned are written ($set) and array pushes are      *)
(* sent as $push, so a save never rewrites a field it did not touch.       *)
(*                                                                         *)
(* Spec      runs every handler as one step (requests served one by one).  *)
(* SpecAsync runs markPaymentPaid as its four datastore accesses, so that  *)
(*           several confirmations and the other handlers interleave at    *)
(*           its await points.                                             *)
(***************************************************************************)
EXTENDS Integers, Sequences, FiniteSets, TLC

(* ------------------------------ bounds --------------------------------- *)
MaxOps == 4
MaxMembers == 2
MaxCalls == 2

(* --------------------------- program constants ------------------------- *)
Plans == {"1month", "2month", "3month", "6month", "yearly"}
PaymentMethods == {"cash", "online"}
NoDate == -1
NoId == 0
NoRef == "none"
NoPlan == "none"
OrderTtl == 1

planToMonths(plan) ==
  CASE plan = "1month" -> 1
    [] plan = "2month" -> 2
    [] plan = "3month" -> 3
    [] plan = "6month" -> 6
    [] plan = "yearly" -> 12
    [] OTHER -> 0

defaultPrices(plan) ==
  CASE plan = "1month" -> 1500
    [] plan = "2month" -> 2500
    [] plan = "3month" -> 3500
    [] plan = "6month" -> 5000
    [] plan = "yearly" -> 8000
    [] OTHER -> 0

generateOrderId(n) == "ORD-" \o ToString(n)

(* ------------------------------- state --------------------------------- *)
VARIABLES users, orders, now, calls, last, ops, env, hdr, settings, settingsCache,
          mail, loginAttempts, rateLimitMap

vars == <<users, orders, now, calls, last, ops, env, hdr, settings, settingsCache,
          mail, loginAttempts, rateLimitMap>>

(* mail is the set of members the step just taken sent the 'Membership     *)
(* Expired' email to.                                                       *)
(* settings is the planPricing of the one Settings document (created with   *)
(* the schema defaults when first asked for); settingsCache is the module   *)
(* variable of the formatters, loaded = FALSE standing for null.            *)
SettingsDefaults ==
  [p \in Plans |-> CASE p = "1month" -> 1500
                    [] p = "2month" -> 2500
                    [] p = "3month" -> 3500
                    [] p = "6month" -> 5000
                    [] p = "yearly" -> 8000]

NoCache == [loaded |-> FALSE, planPricing |-> [p \in Plans |-> 0]]

getPlanAmount(plan) ==
  IF settingsCache.loaded
    THEN (IF plan \in DOMAIN settingsCache.planPricing
            THEN settingsCache.planPricing[plan] ELSE 0)
    ELSE defaultPrices(plan)

clearSettingsCache == NoCache

(* env is process.env.PAYMENT_WEBHOOK_SECRET, "" when it is not set; hdr is *)
(* the credential of the request being served: the x-webhook-secret header *)
(* of a webhook request, the token of a renewal request, NoHeader when the  *)
(* request carries none.                                                    *)
NoHeader == "undefined"
EnvSecrets == {"", "s3cret"}

WEBHOOK_SECRET == IF env # "" THEN env ELSE "changeme"

verifyWebhookSecretTruthy(secret) == secret # NoHeader /\ secret # ""

verifyWebhookSecret(secret) ==
  secret # NoHeader /\ secret # "" /\ secret = WEBHOOK_SECRET

(* ------------------------- admin login state --------------------------- *)
(* Time is counted in units of the fifteen minutes that OrderTtl, the      *)
(* login timeout and the limiter window all last.                          *)
MaxLogins == 9
MAX_LOGIN_ATTEMPTS == 5
LOGIN_TIMEOUT == 1
authLimiterWindowMs == 1
authLimiterMax == 5

(* The one Admin document, the password that matches its hash, and the     *)
(* request bodies the login route is driven with ("" is a missing field).  *)
AdminEmail == "admin@gym"
AdminPassword == "right"
Emails == {AdminEmail, "ghost@gym"}
LimiterKeys == Emails \cup {"ip"}
LoginInputs ==
  {<<AdminEmail, "right">>, <<AdminEmail, "wrong">>, <<"ghost@gym", "wrong">>,
   <<"", "">>}

(* A key without an entry in the Map.                                      *)
NoAttempts == [count |-> 0, timestamp |-> NoDate]
NoRateLimit == [count |-> 0, resetTime |-> NoDate]

UserIds == DOMAIN users
OrderIds == DOMAIN orders
CallIds == 1..MaxCalls
JoinWindows == {<<0, 0>>}
RenewWindows == {<<now + 1, now + 2>>}

IdleCall == [pc |-> "idle", order |-> NoId, ref |-> NoRef, amount |-> 0,
             user |-> NoId, plan |-> NoPlan, at |-> NoDate, doc |-> <<>>]

Done(op, code, user, order, path) ==
  [op |-> op, code |-> code, user |-> user, order |-> order, path |-> path]

Init ==
  /\ users = <<>>
  /\ orders = <<>>
  /\ now = 0
  /\ calls = [c \in CallIds |-> IdleCall]
  /\ last = Done("none", 0, NoId, NoId, "none")
  /\ ops = 0
  /\ env \in EnvSecrets
  /\ hdr = NoHeader
  /\ settings = SettingsDefaults
  /\ settingsCache = NoCache
  /\ mail = {}
  /\ loginAttempts = [e \in Emails |-> NoAttempts]
  /\ rateLimitMap = [k \in LimiterKeys |-> NoRateLimit]

Request ==
  /\ ops < MaxOps
  /\ ops' = ops + 1
  /\ hdr' = NoHeader
  /\ mail' = {}
  /\ UNCHANGED <<env, loginAttempts, rateLimitMap, settings, settingsCache>>

WebhookRequest(secret) ==
  /\ ops < MaxOps
  /\ ops' = ops + 1
  /\ hdr' = secret
  /\ mail' = {}
  /\ UNCHANGED <<env, loginAttempts, rateLimitMap, settings, settingsCache>>

Exists(u) == u \in DOMAIN users
OrderExists(o) == o \in DOMAIN orders
AllIdle == \A c \in CallIds : calls[c].pc = "idle"

(* ------------------------------ register ------------------------------- *)
NewUser(plan, startDate, endDate, paymentMethod) ==
  [plan |-> plan,
   originalJoinDate |-> startDate,
   startDate |-> startDate,
   endDate |-> endDate,
   paymentMethod |-> paymentMethod,
   paymentStatus |-> "pending",
   subscriptionStatus |-> "active",
   membershipHistory |-> <<>>,
   renewals |-> <<>>,
   renewalCount |-> 0,
   isDeleted |-> FALSE]

Register(plan, w, paymentMethod) ==
  /\ Request
  /\ Len(users) < MaxMembers
  /\ users' = Append(users, NewUser(plan, w[1], w[2], paymentMethod))
  /\ last' = Done("register", 201, Len(users) + 1, NoId, "end")
  /\ UNCHANGED <<orders, now, calls>>

(* ---------------------------- payment service -------------------------- *)
NewPayment(userId, plan, amount) ==
  [user |-> userId,
   orderId |-> generateOrderId(Len(orders) + 1),
   amount |-> amount,
   status |-> "created",
   transactionRef |-> NoRef,
   paidAt |-> NoDate,
   expiresAt |-> now + OrderTtl,
   meta |-> [plan |-> plan, isRenewal |-> FALSE, reason |-> "none"]]

resolvedPlan(userId, plan) == IF plan # NoPlan THEN plan ELSE users[userId].plan

resolvedAmount(userId, plan, amount) ==
  IF amount # 0 THEN amount ELSE getPlanAmount(resolvedPlan(userId, plan))

createPayment(userId, plan, amount) ==
  Append(orders, NewPayment(userId, resolvedPlan(userId, plan),
                            resolvedAmount(userId, plan, amount)))

CreatePaymentRoute(userId, plan, amount) ==
  /\ Request
  /\ IF ~Exists(userId)
       THEN /\ last' = Done("createPayment", 500, userId, NoId, "notfound")
            /\ UNCHANGED orders
       ELSE /\ orders' = createPayment(userId, plan, amount)
            /\ last' = Done("createPayment", 201, userId, Len(orders) + 1, "end")
  /\ UNCHANGED <<users, now, calls>>

paidRef(payment, transactionRef) ==
  IF transactionRef # NoRef THEN transactionRef
  ELSE IF payment.transactionRef # NoRef THEN payment.transactionRef
  ELSE payment.orderId

paidPayment(payment, ref, at) ==
  [payment EXCEPT !.status = "paid",
                  !.transactionRef = ref,
                  !.paidAt = at]

paidEntryRepriced(plan, amount, transactionId, at) ==
  [type |-> "join",
   date |-> at,
   duration |-> IF planToMonths(plan) # 0 THEN planToMonths(plan) ELSE 1,
   amount |-> getPlanAmount(plan),
   paymentMode |-> "online",
   plan |-> plan,
   paymentStatus |-> "confirmed",
   transactionId |-> transactionId]

paidEntry(plan, amount, transactionId, at) ==
  [type |-> "join",
   date |-> at,
   duration |-> IF planToMonths(plan) # 0 THEN planToMonths(plan) ELSE 1,
   amount |-> amount,
   paymentMode |-> "online",
   plan |-> plan,
   paymentStatus |-> "confirmed",
   transactionId |-> transactionId]

paidUser(user, plan, amount, transactionId, at) ==
  [user EXCEPT !.paymentStatus = "confirmed",
               !.subscriptionStatus = "active",
               !.membershipHistory = Append(@, paidEntry(plan, amount, transactionId, at))]

markPaidGuardWrongCase(payment) == payment.status = "PAID"

markPaidGuard(payment) == payment.status = "paid"

markPaymentPaid(o, transactionRef) ==
  IF markPaidGuard(orders[o])
    THEN /\ UNCHANGED <<orders, users>>
         /\ last' = Done("markPaid", 200, orders[o].user, o, "guard")
    ELSE LET p == paidPayment(orders[o], paidRef(orders[o], transactionRef), now)
             u == p.user
         IN /\ orders' = [orders EXCEPT ![o] = p]
            /\ users' = IF Exists(u)
                          THEN [users EXCEPT ![u] =
                                  paidUser(@, @.plan, p.amount, p.transactionRef, now)]
                          ELSE users
            /\ last' = Done("markPaid", 200, u, o, "end")

markPaymentFailed(o, reason) ==
  /\ orders' = [orders EXCEPT ![o].status = "failed", ![o].meta.reason = reason]
  /\ last' = Done("markFailed", 200, orders[o].user, o, "end")
  /\ UNCHANGED users

(* ------------------------------ webhook -------------------------------- *)
WebhookUnauthorized(secret, o) ==
  /\ WebhookRequest(secret)
  /\ ~verifyWebhookSecret(secret)
  /\ last' = Done("webhook", 401, NoId, NoId, "secret")
  /\ UNCHANGED <<users, orders, now, calls>>

WebhookNotFound(secret, o) ==
  /\ WebhookRequest(secret)
  /\ verifyWebhookSecret(secret)
  /\ ~OrderExists(o)
  /\ last' = Done("webhook", 500, NoId, NoId, "notfound")
  /\ UNCHANGED <<users, orders, now, calls>>

WebhookFailed(secret, o) ==
  /\ WebhookRequest(secret)
  /\ verifyWebhookSecret(secret)
  /\ OrderExists(o)
  /\ markPaymentFailed(o, "webhook_failed")
  /\ UNCHANGED <<now, calls>>

WebhookPaid(secret, o, transactionRef) ==
  /\ WebhookRequest(secret)
  /\ verifyWebhookSecret(secret)
  /\ OrderExists(o)
  /\ markPaymentPaid(o, transactionRef)
  /\ UNCHANGED <<now, calls>>

(* ---------------------------- approvePayment -------------------------- *)
isRenewal(user) == Len(user.renewals) > 0 \/ user.renewalCount > 0

approvedEntry(user) ==
  [type |-> IF isRenewal(user) THEN "renewal" ELSE "join",
   date |-> now,
   duration |-> planToMonths(user.plan),
   amount |-> getPlanAmount(user.plan),
   paymentMode |-> user.paymentMethod,
   plan |-> user.plan,
   paymentStatus |-> "confirmed",
   transactionId |-> NoRef]

approvedUser(user) ==
  [user EXCEPT !.membershipHistory = Append(@, approvedEntry(user)),
               !.paymentStatus = "confirmed"]

ApprovePayment(u, receiptOk, emailOk) ==
  /\ Request
  /\ IF ~Exists(u)
       THEN /\ last' = Done("approvePayment", 404, u, NoId, "notfound")
            /\ UNCHANGED users
       ELSE IF ~receiptOk
       THEN /\ last' = Done("approvePayment", 500, u, NoId, "receipt")
            /\ UNCHANGED users
       ELSE /\ users' = [users EXCEPT ![u] = approvedUser(@)]
            /\ last' = IF emailOk
                         THEN Done("approvePayment", 200, u, NoId, "end")
                         ELSE Done("approvePayment", 500, u, NoId, "email")
  /\ UNCHANGED <<orders, now, calls>>

(* ------------------------------ updateUser ----------------------------- *)
updatedEndDate(user, plan, startDate, endDate) ==
  IF startDate # NoDate \/ plan # NoPlan
    THEN (IF startDate # NoDate THEN startDate ELSE user.startDate)
         + (IF planToMonths(IF plan # NoPlan THEN plan ELSE user.plan) # 0
              THEN planToMonths(IF plan # NoPlan THEN plan ELSE user.plan)
              ELSE 1)
    ELSE IF endDate # NoDate THEN endDate ELSE user.endDate

updatedUser(user, plan, startDate, endDate) ==
  [user EXCEPT !.plan = IF plan # NoPlan THEN plan ELSE @,
               !.startDate = IF startDate # NoDate THEN startDate ELSE @,
               !.endDate = updatedEndDate(user, plan, startDate, endDate)]

UpdateUser(u, plan, startDate, endDate) ==
  /\ Request
  /\ IF ~Exists(u)
       THEN /\ last' = Done("updateUser", 404, u, NoId, "notfound")
            /\ UNCHANGED users
       ELSE /\ users' = [users EXCEPT ![u] = updatedUser(@, plan, startDate, endDate)]
            /\ last' = Done("updateUser", 200, u, NoId, "end")
  /\ UNCHANGED <<orders, now, calls>>

(* ------------------------------ deleteUser ----------------------------- *)
deletedUser(user) ==
  [user EXCEPT !.isDeleted = TRUE, !.subscriptionStatus = "expired"]

DeleteUser(u) ==
  /\ Request
  /\ IF ~Exists(u)
       THEN /\ last' = Done("deleteUser", 404, u, NoId, "notfound")
            /\ UNCHANGED users
       ELSE /\ users' = [users EXCEPT ![u] = deletedUser(@)]
            /\ last' = Done("deleteUser", 200, u, NoId, "end")
  /\ UNCHANGED <<orders, now, calls>>

(* ------------------------------ renewal token ------------------------- *)
(* jwt.verify: the name of the error it throws, "none" when it returns      *)
jwtVerify(token) ==
  CASE token = "valid" -> "none"
    [] token = "expired" -> "TokenExpiredError"
    [] OTHER -> "JsonWebTokenError"

tokenFailureOnlyJwt(errorName) == errorName = "JsonWebTokenError"

tokenFailure(errorName) ==
  errorName \in {"JsonWebTokenError", "TokenExpiredError"}

(* a request that carries a renewal token in its path; hdr records it *)
TokenRequest(token) ==
  /\ ops < MaxOps
  /\ ops' = ops + 1
  /\ hdr' = token
  /\ mail' = {}
  /\ UNCHANGED <<env, loginAttempts, rateLimitMap, settings, settingsCache>>

VerifyRenewalToken(token, u) ==
  /\ TokenRequest(token)
  /\ last' = IF jwtVerify(token) # "none"
               THEN (IF tokenFailure(jwtVerify(token))
                       THEN Done("verifyRenewalToken", 401, NoId, NoId,
                                 "Invalid or expired token")
                       ELSE Done("verifyRenewalToken", 500, NoId, NoId,
                                 "Error verifying token"))
             ELSE IF ~Exists(u)
               THEN Done("verifyRenewalToken", 404, u, NoId, "notfound")
             ELSE Done("verifyRenewalToken", 200, u, NoId, "end")
  /\ UNCHANGED <<users, orders, now, calls>>

(* ---------------------------- renewMembership -------------------------- *)
renewalEntryAfterChange(user, plan, startDate, endDate, paymentMethod) ==
  [plan |-> plan,
   startDate |-> startDate,
   endDate |-> endDate,
   paymentMethod |-> paymentMethod,
   renewedAt |-> now,
   previousPlan |-> plan,
   previousAmount |-> getPlanAmount(plan),
   newAmount |-> getPlanAmount(plan)]

renewalEntry(user, plan, startDate, endDate, paymentMethod) ==
  [plan |-> plan,
   startDate |-> startDate,
   endDate |-> endDate,
   paymentMethod |-> paymentMethod,
   renewedAt |-> now,
   previousPlan |-> user.plan,
   previousAmount |-> getPlanAmount(user.plan),
   newAmount |-> getPlanAmount(plan)]

renewedJoinDateReset(user) == user.startDate

renewedJoinDate(user) ==
  IF user.originalJoinDate = NoDate THEN user.startDate ELSE user.originalJoinDate

renewedUser(user, plan, startDate, endDate, paymentMethod) ==
  [user EXCEPT !.originalJoinDate = renewedJoinDate(user),
               !.plan = plan,
               !.startDate = startDate,
               !.endDate = endDate,
               !.paymentMethod = paymentMethod,
               !.paymentStatus = "pending",
               !.subscriptionStatus = "pending",
               !.renewals = Append(@, renewalEntry(user, plan, startDate, endDate,
                                                   paymentMethod)),
               !.renewalCount = @ + 1]

renewalPaymentCurrentPlan(u, plan) ==
  [NewPayment(u, users[u].plan, getPlanAmount(users[u].plan))
     EXCEPT !.meta.isRenewal = TRUE]

renewalPayment(u, plan) ==
  [NewPayment(u, plan, getPlanAmount(plan)) EXCEPT !.meta.isRenewal = TRUE]

linkedPayment(payment, u, plan) ==
  [payment EXCEPT !.user = u, !.meta.plan = plan, !.meta.isRenewal = TRUE]

renewalOrders(u, plan, paymentMethod, orderId) ==
  IF paymentMethod = "online"
    THEN Append(orders, renewalPayment(u, plan))
  ELSE IF OrderExists(orderId)
    THEN [orders EXCEPT ![orderId] = linkedPayment(@, u, plan)]
  ELSE orders

RenewMembership(token, u, plan, w, paymentMethod, orderId, emailOk) ==
  /\ TokenRequest(token)
  /\ IF jwtVerify(token) # "none"
       THEN /\ last' = IF tokenFailure(jwtVerify(token))
                         THEN Done("renewMembership", 401, NoId, NoId,
                                   "Invalid or expired token")
                         ELSE Done("renewMembership", 500, NoId, NoId,
                                   "Error processing renewal request")
            /\ UNCHANGED <<users, orders>>
       ELSE IF ~Exists(u)
       THEN /\ last' = Done("renewMembership", 404, u, NoId, "notfound")
            /\ UNCHANGED <<users, orders>>
       ELSE /\ orders' = renewalOrders(u, plan, paymentMethod, orderId)
            /\ users' = [users EXCEPT ![u] =
                           renewedUser(@, plan, w[1], w[2], paymentMethod)]
            /\ last' = IF emailOk
                         THEN Done("renewMembership", 200, u,
                                   IF paymentMethod = "online"
                                     THEN Len(orders) + 1 ELSE NoId, "end")
                         ELSE Done("renewMembership", 500, u, NoId, "email")
  /\ UNCHANGED <<now, calls>>

(* ----------------------------- rejectRenewal --------------------------- *)
rejectedUser(user) == [user EXCEPT !.subscriptionStatus = "expired"]

RejectRenewal(u, emailOk) ==
  /\ Request
  /\ IF ~Exists(u)
       THEN /\ last' = Done("rejectRenewal", 404, u, NoId, "notfound")
            /\ UNCHANGED users
       ELSE /\ users' = [users EXCEPT ![u] = rejectedUser(@)]
            /\ last' = IF emailOk
                         THEN Done("rejectRenewal", 200, u, NoId, "end")
                         ELSE Done("rejectRenewal", 500, u, NoId, "email")
  /\ UNCHANGED <<orders, now, calls>>

(* -------------------------- addMembershipHistory ----------------------- *)
membershipEntry(type, date, duration, amount, paymentMode, plan, paymentStatus) ==
  [type |-> type,
   date |-> date,
   duration |-> duration,
   amount |-> amount,
   paymentMode |-> paymentMode,
   plan |-> plan,
   paymentStatus |-> IF paymentStatus # "" THEN paymentStatus ELSE "pending",
   transactionId |-> NoRef]

historyUserAssign(user, e) ==
  [user EXCEPT !.membershipHistory = <<e>>,
               !.plan = e.plan,
               !.startDate = e.date,
               !.endDate = e.date + e.duration,
               !.paymentMethod = e.paymentMode,
               !.paymentStatus = e.paymentStatus]

historyUser(user, e) ==
  IF e.type \in {"join", "renewal"}
    THEN [user EXCEPT !.membershipHistory = Append(@, e),
                      !.plan = e.plan,
                      !.startDate = e.date,
                      !.endDate = e.date + e.duration,
                      !.paymentMethod = e.paymentMode,
                      !.paymentStatus = e.paymentStatus]
    ELSE [user EXCEPT !.membershipHistory = Append(@, e)]

AddMembershipHistory(u, type, plan, paymentStatus) ==
  /\ Request
  /\ IF ~Exists(u)
       THEN /\ last' = Done("addMembershipHistory", 404, u, NoId, "notfound")
            /\ UNCHANGED users
       ELSE /\ users' = [users EXCEPT ![u] =
                 historyUser(@, membershipEntry(type, now, planToMonths(plan),
                                getPlanAmount(plan), "cash", plan, paymentStatus))]
            /\ last' = Done("addMembershipHistory", 200, u, NoId, "end")
  /\ UNCHANGED <<orders, now, calls>>

(* ----------------------------- updateSettings -------------------------- *)
mergedPricing(planPricing) ==
  [p \in Plans |-> IF p \in DOMAIN planPricing THEN planPricing[p] ELSE settings[p]]

UpdateSettings(planPricing) ==
  /\ ops < MaxOps
  /\ ops' = ops + 1
  /\ hdr' = NoHeader
  /\ settings' = mergedPricing(planPricing)
  /\ settingsCache' = clearSettingsCache
  /\ mail' = {}
  /\ last' = Done("updateSettings", 200, NoId, NoId, "end")
  /\ UNCHANGED <<users, orders, now, calls, env, loginAttempts, rateLimitMap>>

(* ---------------------------- revenue query ---------------------------- *)
membershipHistoryActive ==
  UNION {{<<u, users[u].membershipHistory[i]>> :
            i \in {j \in DOMAIN users[u].membershipHistory :
                     users[u].membershipHistory[j].paymentStatus = "confirmed"}} :
         u \in {v \in DOMAIN users : ~users[v].isDeleted}}

membershipHistoryAll ==
  UNION {{<<u, users[u].membershipHistory[i]>> :
            i \in {j \in DOMAIN users[u].membershipHistory :
                     users[u].membershipHistory[j].paymentStatus = "confirmed"}} :
         u \in DOMAIN users}

(* ------------------------------ expiry sweep --------------------------- *)
isExpiredUserAnyStatus(user) == user.endDate < now

isExpiredUser(user) == user.endDate < now /\ user.subscriptionStatus # "expired"

sweptUsers(failAt) ==
  [u \in DOMAIN users |->
     IF isExpiredUser(users[u])
        /\ (failAt = 0 \/ Cardinality({v \in DOMAIN users :
                                         v < u /\ isExpiredUser(users[v])}) < failAt)
       THEN [users[u] EXCEPT !.subscriptionStatus = "expired"]
       ELSE users[u]]

notifiedUsers(failAt) ==
  {u \in DOMAIN users :
     /\ isExpiredUser(users[u])
     /\ (failAt = 0 \/ Cardinality({v \in DOMAIN users :
                                      v < u /\ isExpiredUser(users[v])}) < failAt - 1)}

CheckExpiredSubscriptions(failAt) ==
  /\ failAt <= Cardinality({u \in DOMAIN users : isExpiredUser(users[u])})
  /\ users' = sweptUsers(failAt)
  /\ mail' = notifiedUsers(failAt)
  /\ last' = Done("sweep", 0, NoId, NoId, IF failAt = 0 THEN "end" ELSE "email")
  /\ UNCHANGED <<orders, now, calls, ops, env, loginAttempts, rateLimitMap, hdr, settings, settingsCache>>

(* -------------------------------- clock -------------------------------- *)
Tick ==
  /\ Request
  /\ now' = now + 1
  /\ last' = Done("tick", 0, NoId, NoId, "none")
  /\ UNCHANGED <<users, orders, calls>>

(* ------------- markPaymentPaid, one datastore access per step ---------- *)
(* Payment.findOne resolves; the guard and the assignments of lines 92-97   *)
(* run without an await, then payment.save() is issued.                     *)
MarkPaidFind(c, secret, o, transactionRef) ==
  /\ WebhookRequest(secret)
  /\ verifyWebhookSecret(secret)
  /\ OrderExists(o)
  /\ calls[c].pc = "idle"
  /\ IF markPaidGuard(orders[o])
       THEN /\ last' = Done("markPaid", 200, orders[o].user, o, "guard")
            /\ UNCHANGED calls
       ELSE /\ calls' = [calls EXCEPT ![c] =
                 [pc |-> "savePayment", order |-> o,
                  ref |-> paidRef(orders[o], transactionRef),
                  amount |-> orders[o].amount, user |-> orders[o].user,
                  plan |-> NoPlan, at |-> now, doc |-> <<>>]]
            /\ UNCHANGED last
  /\ UNCHANGED <<users, orders, now>>

(* payment.save() reaches the store: $set of status, transactionRef, paidAt *)
MarkPaidSavePayment(c) ==
  /\ calls[c].pc = "savePayment"
  /\ orders' = [orders EXCEPT ![calls[c].order] =
                  paidPayment(@, calls[c].ref, calls[c].at)]
  /\ calls' = [calls EXCEPT ![c].pc = "findUser"]
  /\ UNCHANGED <<users, now, last, ops, env, loginAttempts, rateLimitMap, hdr, settings, settingsCache, mail>>

(* User.findById resolves; lines 101-120 run, then user.save() is issued    *)
MarkPaidFindUser(c) ==
  /\ calls[c].pc = "findUser"
  /\ IF Exists(calls[c].user)
       THEN /\ calls' = [calls EXCEPT ![c].pc = "saveUser",
                                      ![c].plan = users[calls[c].user].plan,
                                      ![c].at = now]
            /\ UNCHANGED last
       ELSE /\ calls' = [calls EXCEPT ![c] = IdleCall]
            /\ last' = Done("markPaid", 200, calls[c].user, calls[c].order, "end")
  /\ UNCHANGED <<users, orders, now, ops, env, loginAttempts, rateLimitMap, hdr, settings, settingsCache, mail>>

(* user.save() reaches the store: $set of the two statuses, $push of entry  *)
MarkPaidSaveUser(c) ==
  /\ calls[c].pc = "saveUser"
  /\ users' = [users EXCEPT ![calls[c].user] =
                 paidUser(@, calls[c].plan, calls[c].amount, calls[c].ref,
                          calls[c].at)]
  /\ calls' = [calls EXCEPT ![c] = IdleCall]
  /\ last' = Done("markPaid", 200, calls[c].user, calls[c].order, "end")
  /\ UNCHANGED <<orders, now, ops, env, loginAttempts, rateLimitMap, hdr, settings, settingsCache, mail>>

(* User.findById or user.save() rejects (a datastore error) after the      *)
(* payment was saved: the exception leaves markPaymentPaid and the webhook  *)
(* route answers 500                                                        *)
MarkPaidInterrupted(c) ==
  /\ calls[c].pc \in {"findUser", "saveUser"}
  /\ calls' = [calls EXCEPT ![c] = IdleCall]
  /\ last' = Done("markPaid", 500, calls[c].user, calls[c].order, "interrupted")
  /\ UNCHANGED <<users, orders, now, ops, env, loginAttempts, rateLimitMap, hdr, settings, settingsCache, mail>>

(* ------------ renewMembership, one datastore access per step ----------- *)
(* User.findById resolves and lines 885-916 change the loaded document; the *)
(* call keeps that document in doc until user.save() is applied. Only the   *)
(* branch without an order (paymentMethod not online, no orderId) is split. *)
RenewFind(c, u, plan, w, paymentMethod) ==
  /\ TokenRequest("valid")
  /\ Exists(u)
  /\ paymentMethod # "online"
  /\ calls[c].pc = "idle"
  /\ calls' = [calls EXCEPT ![c] =
                 [IdleCall EXCEPT !.pc = "saveRenewal", !.user = u,
                    !.doc = <<renewedUser(users[u], plan, w[1], w[2],
                                          paymentMethod)>>]]
  /\ UNCHANGED <<users, orders, now, last>>

(* what user.save() writes: $set of the assigned paths, $push of the entry *)
savedRenewal(user, doc) ==
  [user EXCEPT !.plan = doc.plan,
               !.startDate = doc.startDate,
               !.endDate = doc.endDate,
               !.paymentMethod = doc.paymentMethod,
               !.paymentStatus = doc.paymentStatus,
               !.subscriptionStatus = doc.subscriptionStatus,
               !.renewals = Append(@, doc.renewals[Len(doc.renewals)]),
               !.renewalCount = doc.renewalCount]

RenewSave(c) ==
  /\ calls[c].pc = "saveRenewal"
  /\ users' = [users EXCEPT ![calls[c].user] = savedRenewal(@, calls[c].doc[1])]
  /\ calls' = [calls EXCEPT ![c] = IdleCall]
  /\ last' = Done("renewMembership", 200, calls[c].user, NoId, "end")
  /\ UNCHANGED <<orders, now, ops, env, loginAttempts, rateLimitMap, hdr, settings, settingsCache, mail>>

(* ------------------------------- inputs -------------------------------- *)
Secrets == {NoHeader, "", "wrong-secret", "changeme", "s3cret"}
ExternalRef(o) == "UTR-" \o ToString(o)
RefInputs(o) == {NoRef, ExternalRef(o)}
JoinInputs == {<<"1month", "cash">>, <<"yearly", "online">>}
RenewInputs == {<<"yearly", "online">>, <<"1month", "cash">>}
Tokens == {"valid", "badsignature", "expired"}
PricingInputs == {"yearly" :> 9000}
HistoryInputs == {<<"renewal", "yearly", "confirmed">>, <<"join", "1month", "">>}
UpdateInputs == {<<"yearly", NoDate, NoDate>>, <<NoPlan, 1, NoDate>>,
                 <<NoPlan, NoDate, 0>>}

Requests ==
  \/ \E x \in JoinInputs, w \in JoinWindows : Register(x[1], w, x[2])
  \/ \E u \in UserIds, p \in {NoPlan, "yearly"} : CreatePaymentRoute(u, p, 0)
  \/ \E s \in Secrets, o \in OrderIds \cup {Len(orders) + 1} : WebhookUnauthorized(s, o)
  \/ \E s \in Secrets : WebhookNotFound(s, Len(orders) + 1)
  \/ \E s \in Secrets, o \in OrderIds : WebhookFailed(s, o)
  \/ \E u \in UserIds, r \in BOOLEAN, e \in BOOLEAN : ApprovePayment(u, r, e)
  \/ \E u \in UserIds, x \in UpdateInputs : UpdateUser(u, x[1], x[2], x[3])
  \/ \E u \in UserIds : DeleteUser(u)
  \/ \E t \in Tokens, u \in UserIds : VerifyRenewalToken(t, u)
  \/ \E t \in Tokens, u \in UserIds, x \in RenewInputs, w \in RenewWindows,
        o \in OrderIds \cup {NoId}, e \in BOOLEAN :
          RenewMembership(t, u, x[1], w, x[2], o, e)
  \/ \E u \in UserIds, e \in BOOLEAN : RejectRenewal(u, e)
  \/ \E u \in UserIds, x \in HistoryInputs :
        AddMembershipHistory(u, x[1], x[2], x[3])
  \/ \E x \in PricingInputs : UpdateSettings(x)
  \/ \E f \in 0..Len(users) : CheckExpiredSubscriptions(f)
  \/ Tick

Next ==
  \/ Requests
  \/ \E s \in Secrets, o \in OrderIds : \E r \in RefInputs(o) : WebhookPaid(s, o, r)

Spec == Init /\ [][Next]_vars

NextAsync ==
  \/ Requests
  \/ \E c \in CallIds, s \in Secrets, o \in OrderIds : \E r \in RefInputs(o) :
        MarkPaidFind(c, s, o, r)
  \/ \E c \in CallIds : MarkPaidSavePayment(c)
  \/ \E c \in CallIds : MarkPaidFindUser(c)
  \/ \E c \in CallIds : MarkPaidSaveUser(c)

SpecAsync == Init /\ [][NextAsync]_vars

NextRenewAsync ==
  \/ Next
  \/ \E c \in CallIds, u \in UserIds, x \in RenewInputs, w \in RenewWindows :
        RenewFind(c, u, x[1], w, x[2])
  \/ \E c \in CallIds : RenewSave(c)

SpecRenewAsync == Init /\ [][NextRenewAsync]_vars

NextCrash ==
  \/ NextAsync
  \/ \E c \in CallIds : MarkPaidInterrupted(c)

SpecCrash == Init /\ [][NextCrash]_vars

(* ----------------------- POST /api/auth/login --------------------------- *)
(* authLimiter keys its counter by the body's email, else by the address.   *)
authLimiterKey(email) == IF email # "" THEN email ELSE "ip"

(* The limiter's entry after this request: a missing or lapsed entry is     *)
(* replaced by a fresh window, then the count is incremented.               *)
rateLimitHit(key) ==
  LET info == rateLimitMap[key]
      cur  == IF info = NoRateLimit \/ now > info.resetTime
              THEN [count |-> 0, resetTime |-> now + authLimiterWindowMs]
              ELSE info
  IN [cur EXCEPT !.count = @ + 1]

LoginRequest(email) ==
  /\ ops < MaxLogins
  /\ ops' = ops + 1
  /\ hdr' = email
  /\ mail' = {}
  /\ rateLimitMap' = [rateLimitMap EXCEPT ![authLimiterKey(email)] =
                        rateLimitHit(authLimiterKey(email))]
  /\ UNCHANGED <<users, orders, now, calls, env, settings, settingsCache>>

(* Whether the request gets past the limiter into the controller.           *)
LimiterPasses(email) == rateLimitHit(authLimiterKey(email)).count <= authLimiterMax

LoginRateLimited(email, password) ==
  /\ LoginRequest(email)
  /\ ~LimiterPasses(email)
  /\ last' = Done("login", 429, NoId, NoId, "rateLimit")
  /\ UNCHANGED loginAttempts

LoginBadRequest(email, password) ==
  /\ LoginRequest(email)
  /\ LimiterPasses(email)
  /\ email = "" \/ password = ""
  /\ last' = Done("login", 400, NoId, NoId, "missing")
  /\ UNCHANGED loginAttempts

(* The entry the handler reads at its start and keeps using afterwards.     *)
loginLocked(email) ==
  /\ loginAttempts[email].count >= MAX_LOGIN_ATTEMPTS
  /\ now - loginAttempts[email].timestamp < LOGIN_TIMEOUT

LoginLocked(email, password) ==
  /\ LoginRequest(email)
  /\ LimiterPasses(email)
  /\ email # "" /\ password # ""
  /\ loginLocked(email)
  /\ last' = Done("login", 429, NoId, NoId, "locked")
  /\ UNCHANGED loginAttempts

(* The entry written after a failure is computed from the one read at the   *)
(* start of the handler, also when the handler deleted it in between.       *)
failedAttempt(email) ==
  [count |-> loginAttempts[email].count + 1, timestamp |-> now]

LoginFailed(email, password) ==
  /\ LoginRequest(email)
  /\ LimiterPasses(email)
  /\ email # "" /\ password # ""
  /\ ~loginLocked(email)
  /\ email # AdminEmail \/ password # AdminPassword
  /\ loginAttempts' = [loginAttempts EXCEPT ![email] = failedAttempt(email)]
  /\ last' = Done("login", 401, NoId, NoId,
                  IF email # AdminEmail THEN "noAdmin" ELSE "password")

LoginSuccess(email, password) ==
  /\ LoginRequest(email)
  /\ LimiterPasses(email)
  /\ email # "" /\ password # ""
  /\ ~loginLocked(email)
  /\ email = AdminEmail /\ password = AdminPassword
  /\ loginAttempts' = [loginAttempts EXCEPT ![email] = NoAttempts]
  /\ last' = Done("login", 200, NoId, NoId, "end")

(* The limiter's periodic cleanup drops the entries whose window is over.   *)
RateLimitCleanup ==
  /\ \E k \in LimiterKeys : rateLimitMap[k] # NoRateLimit /\ now > rateLimitMap[k].resetTime
  /\ rateLimitMap' = [k \in LimiterKeys |->
                        IF rateLimitMap[k] # NoRateLimit /\ now > rateLimitMap[k].resetTime
                        THEN NoRateLimit ELSE rateLimitMap[k]]
  /\ UNCHANGED <<users, orders, now, calls, last, ops, env, hdr, settings,
                 settingsCache, mail, loginAttempts>>

LoginClock ==
  /\ ops < MaxLogins
  /\ ops' = ops + 1
  /\ now' = now + 1
  /\ hdr' = NoHeader
  /\ mail' = {}
  /\ last' = Done("tick", 0, NoId, NoId, "none")
  /\ UNCHANGED <<users, orders, calls, env, settings, settingsCache,
                 loginAttempts, rateLimitMap>>

NextLogin ==
  \/ \E x \in LoginInputs : LoginRateLimited(x[1], x[2])
  \/ \E x \in LoginInputs : LoginBadRequest(x[1], x[2])
  \/ \E x \in LoginInputs : LoginLocked(x[1], x[2])
  \/ \E x \in LoginInputs : LoginFailed(x[1], x[2])
  \/ \E x \in LoginInputs : LoginSuccess(x[1], x[2])
  \/ RateLimitCleanup
  \/ LoginClock

SpecLogin == Init /\ [][NextLogin]_vars

(* ======================= properties of the claims ======================= *)
IsPrefix(s, t) == Len(s) <= Len(t) /\ SubSeq(t, 1, Len(s)) = s

History(u) == users[u].membershipHistory

(* the step is a request of kind op, served for member u *)
Served(op, u) == ops' = ops + 1 /\ last'.op = op /\ last'.user = u

(* the step is an approvePayment on member u that reached the save *)
ApproveStep(u) == Served("approvePayment", u) /\ last'.path \in {"end", "email"}

(* the step is a markPaymentPaid on order o *)
MarkPaidStep(o) == ops' = ops + 1 /\ last'.op = "markPaid" /\ last'.order = o

(* ledger entries that confirmations of order o appended *)
EntriesFor(o) ==
  {<<u, i>> \in {<<v, j>> \in (DOMAIN users) \X (1..MaxOps) :
                   j \in DOMAIN users[v].membershipHistory} :
     users[u].membershipHistory[i].transactionId
        \in {orders[o].orderId, ExternalRef(o)}}

(* C1: a markPaymentPaid served on an order that is not yet paid makes it   *)
(* paid and appends exactly one confirmed ledger entry carrying the order's *)
(* amount and reference to its owner; a markPaymentPaid served on a paid    *)
(* order (in particular the second of two calls in sequence) returns it     *)
(* from the guard and changes neither the order nor any member.             *)
C1_IdempotentMarkPaid ==
  [][\A o \in DOMAIN orders : MarkPaidStep(o) =>
       /\ orders'[o].status = "paid"
       /\ IF orders[o].status = "paid"
            THEN /\ orders' = orders
                 /\ users' = users
                 /\ last'.path = "guard"
            ELSE LET u == orders[o].user IN
                 /\ orders'[o].paidAt = now
                 /\ orders'[o].amount = orders[o].amount
                 /\ Len(users'[u].membershipHistory) = Len(History(u)) + 1
                 /\ IsPrefix(History(u), users'[u].membershipHistory)
                 /\ LET e == users'[u].membershipHistory[Len(History(u)) + 1] IN
                      /\ e.amount = orders[o].amount
                      /\ e.paymentStatus = "confirmed"
                      /\ e.transactionId = orders'[o].transactionRef
       /\ (last.op = "markPaid" /\ last.order = o)
            => (orders' = orders /\ users' = users)]_vars

(* two calls in sequence were served: one paid order, one entry for it *)
C1_Witness ==
  \E o \in DOMAIN orders :
    /\ last.op = "markPaid" /\ last.order = o /\ last.path = "guard"
    /\ orders[o].status = "paid"
    /\ orders[o].meta.reason = "none"
    /\ Cardinality(EntriesFor(o)) = 1

(* C2: however confirmations of one order interleave, the ledger holds at   *)
(* most one entry for an order (that was never marked failed).              *)
C2_AtMostOneEntryPerOrder ==
  \A o \in DOMAIN orders :
    orders[o].meta.reason = "none" => Cardinality(EntriesFor(o)) <= 1

(* C3: in every state, a paid order has an owner whose paymentStatus is     *)
(* confirmed and whose ledger holds a confirmed entry of the order's amount *)
C3_PaidImpliesConfirmed ==
  \A o \in DOMAIN orders :
    orders[o].status = "paid" =>
      /\ Exists(orders[o].user)
      /\ users[orders[o].user].paymentStatus = "confirmed"
      /\ \E i \in DOMAIN History(orders[o].user) :
           /\ History(orders[o].user)[i].amount = orders[o].amount
           /\ History(orders[o].user)[i].paymentStatus = "confirmed"

(* C4: once an order is paid, no step changes its status or its amount.     *)
C4_PaidImmutable ==
  [][\A o \in DOMAIN orders :
       orders[o].status = "paid" =>
         /\ orders'[o].status = "paid"
         /\ orders'[o].amount = orders[o].amount]_vars

(* C5: when a webhook confirmation of a member's order and an admin         *)
(* approval of that member follow one another, in either order, the second  *)
(* of the two appends nothing to the member's ledger.                       *)
C5_OneEntryForWebhookAndApproval ==
  [][\A u \in DOMAIN users :
       (\/ /\ last.op = "markPaid" /\ last.path = "end" /\ last.user = u
           /\ ApproveStep(u)
        \/ /\ last.op = "approvePayment" /\ last.path \in {"end", "email"}
           /\ last.user = u
           /\ \E o \in DOMAIN orders : orders[o].user = u /\ MarkPaidStep(o))
       => users'[u].membershipHistory = History(u)]_vars

(* C6: an approvePayment of a member whose renewal is pending (subscription *)
(* and payment status pending) leaves the member active and confirmed and   *)
(* appends one confirmed ledger entry.                                      *)
C6_ApprovalActivatesRenewal ==
  [][\A u \in DOMAIN users :
       (/\ ApproveStep(u)
        /\ Len(users[u].renewals) > 0
        /\ users[u].subscriptionStatus = "pending"
        /\ users[u].paymentStatus = "pending")
       => /\ users'[u].subscriptionStatus = "active"
          /\ users'[u].paymentStatus = "confirmed"
          /\ Len(users'[u].membershipHistory) = Len(History(u)) + 1
          /\ users'[u].membershipHistory[Len(History(u)) + 1].paymentStatus
               = "confirmed"]_vars

(* C7: every step that turns a member's paymentStatus into confirmed        *)
(* appends exactly one ledger entry, a confirmed one, and an approvePayment *)
(* of a member that is already confirmed appends nothing.                   *)
C7_OneEntryPerConfirmation ==
  [][\A u \in DOMAIN users :
       /\ (users[u].paymentStatus # "confirmed"
           /\ users'[u].paymentStatus = "confirmed")
          => /\ Len(users'[u].membershipHistory) = Len(History(u)) + 1
             /\ IsPrefix(History(u), users'[u].membershipHistory)
             /\ users'[u].membershipHistory[Len(History(u)) + 1].paymentStatus
                  = "confirmed"
       /\ (ApproveStep(u) /\ users[u].paymentStatus = "confirmed")
          => users'[u].membershipHistory = History(u)]_vars

(* C8: every step leaves each member's ledger as a prefix of the new one.   *)
C8_LedgerAppendOnly ==
  [][\A u \in DOMAIN users :
       /\ u \in DOMAIN users'
       /\ IsPrefix(History(u), users'[u].membershipHistory)]_vars

(* a ledger of two entries survived an admin edit, a deletion or a sweep *)
C8_Witness ==
  \E u \in DOMAIN users :
    /\ Len(History(u)) >= 2
    /\ last.op \in {"updateUser", "deleteUser", "rejectRenewal", "renewMembership",
                    "sweep", "markFailed"}

(* C9: deleteUser keeps the member record and its ledger as they were, and  *)
(* in every state the all-members revenue query returns every confirmed     *)
(* entry of every deleted member.                                           *)
C9_SoftDeleteKeepsLedger ==
  [][/\ \A u \in DOMAIN users :
          (Served("deleteUser", u) /\ last'.code = 200)
          => /\ u \in DOMAIN users'
             /\ users'[u].isDeleted
             /\ users'[u].membershipHistory = History(u)
      /\ \A v \in DOMAIN users' :
           users'[v].isDeleted =>
             \A i \in DOMAIN users'[v].membershipHistory :
               users'[v].membershipHistory[i].paymentStatus = "confirmed"
                 => <<v, users'[v].membershipHistory[i]>> \in membershipHistoryAll']_vars

(* a member with a confirmed entry has just been deleted *)
C9_Witness ==
  \E u \in DOMAIN users :
    /\ last.op = "deleteUser" /\ last.user = u
    /\ users[u].isDeleted
    /\ \E i \in DOMAIN History(u) : History(u)[i].paymentStatus = "confirmed"
    /\ \E e \in membershipHistoryAll : e[1] = u

(* C10: register sets originalJoinDate to the start date, no step changes   *)
(* it afterwards, a renewal submission sets startDate and endDate to the    *)
(* submitted window, and approvals, rejections and payment confirmations    *)
(* leave startDate and endDate alone.                                       *)
C10_RenewalKeepsJoinDate ==
  [][/\ \A u \in DOMAIN users :
          /\ users'[u].originalJoinDate = users[u].originalJoinDate
          /\ (Served("renewMembership", u) /\ last'.path \in {"end", "email"})
             => /\ Len(users'[u].renewals) = Len(users[u].renewals) + 1
                /\ LET r == users'[u].renewals[Len(users'[u].renewals)] IN
                     /\ users'[u].startDate = r.startDate
                     /\ users'[u].endDate = r.endDate
          /\ (ops' = ops + 1
              /\ last'.op \in {"approvePayment", "rejectRenewal", "markPaid",
                               "markFailed", "webhook", "createPayment"})
             => /\ users'[u].startDate = users[u].startDate
                /\ users'[u].endDate = users[u].endDate
      /\ \A v \in (DOMAIN users') \ (DOMAIN users) :
           users'[v].originalJoinDate = users'[v].startDate]_vars

(* a member renewed twice with an approval in between and kept the join date *)
C10_Witness ==
  \E u \in DOMAIN users :
    /\ Len(users[u].renewals) >= 2
    /\ users[u].originalJoinDate = 0
    /\ users[u].startDate = users[u].renewals[Len(users[u].renewals)].startDate
    /\ users[u].startDate # users[u].originalJoinDate
    /\ Len(History(u)) >= 1

(* C11: a served rejectRenewal leaves the member expired and the ledger as  *)
(* it was, and a webhook confirmation that follows the rejection, for an    *)
(* order a renewal submission of that member created, neither appends a     *)
(* ledger entry nor makes the member active.                                *)
C11_RejectedRenewalNoRevenue ==
  [][\A u \in DOMAIN users :
       /\ (Served("rejectRenewal", u) /\ last'.path \in {"end", "email"})
          => /\ users'[u].subscriptionStatus = "expired"
             /\ users'[u].membershipHistory = History(u)
       /\ (/\ last.op = "rejectRenewal" /\ last.user = u
           /\ last.path \in {"end", "email"}
           /\ Len(users[u].renewals) > 0
           /\ \E o \in DOMAIN orders :
                /\ orders[o].user = u
                /\ orders[o].meta.isRenewal
                /\ MarkPaidStep(o))
          => /\ users'[u].membershipHistory = History(u)
             /\ users'[u].subscriptionStatus # "active"]_vars

(* C12: a member's subscriptionStatus changes only along active -> expired, *)
(* expired -> pending, pending -> active and pending -> expired.            *)
C12_SubscriptionStateMachine ==
  [][\A u \in DOMAIN users :
       users'[u].subscriptionStatus # users[u].subscriptionStatus
         => <<users[u].subscriptionStatus, users'[u].subscriptionStatus>>
              \in {<<"active", "expired">>, <<"expired", "pending">>,
                   <<"pending", "active">>, <<"pending", "expired">>}]_vars

(* the step serves a POST /webhook request *)
WebhookStep == ops' = ops + 1 /\ last'.op \in {"webhook", "markPaid", "markFailed"}

(* C13: a webhook request passes the secret check exactly when a secret is  *)
(* configured in the environment and the supplied header equals it; the     *)
(* empty string, a missing header and any other string are refused, and     *)
(* with no secret configured every supplied value is refused.               *)
C13_SecretCheck ==
  [][\A s \in Secrets :
       (WebhookStep /\ hdr' = s)
         => (last'.code # 401 <=> (env # "" /\ s = env))]_vars

(* C14: a webhook request whose secret header is missing or differs from    *)
(* the configured secret is answered 401 and leaves every order and every   *)
(* member as it was.                                                        *)
C14_UnauthorizedWebhookNoChange ==
  [][(WebhookStep /\ hdr' # WEBHOOK_SECRET)
       => /\ last'.code = 401
          /\ users' = users
          /\ orders' = orders]_vars

(* a wrong secret was refused while an unpaid order and its owner existed *)
C14_Witness ==
  /\ last.op = "webhook" /\ last.code = 401
  /\ hdr = "wrong-secret"
  /\ \E o \in DOMAIN orders : orders[o].status = "created" /\ Exists(orders[o].user)

(* C15: no step changes the amount stored on an order (a change of the      *)
(* price catalog or of the member's plan included), and the ledger entry a  *)
(* markPaymentPaid appends carries the order's stored amount.               *)
C15_PlanAmountStable ==
  [][\A o \in DOMAIN orders :
       /\ o \in DOMAIN orders'
       /\ orders'[o].amount = orders[o].amount
       /\ (MarkPaidStep(o) /\ orders[o].status # "paid")
          => LET u == orders[o].user IN
             /\ Len(users'[u].membershipHistory) = Len(History(u)) + 1
             /\ users'[u].membershipHistory[Len(History(u)) + 1].amount
                  = orders[o].amount]_vars

(* an order was paid after the catalog price of its plan had changed, for a *)
(* member whose current plan has another price: the entry has the order's   *)
(* amount                                                                   *)
C15_Witness ==
  \E o \in DOMAIN orders :
    /\ orders[o].status = "paid"
    /\ settings[orders[o].meta.plan] # orders[o].amount
    /\ getPlanAmount(users[orders[o].user].plan) # orders[o].amount
    /\ \E i \in DOMAIN History(orders[o].user) :
         /\ History(orders[o].user)[i].transactionId = orders[o].transactionRef
         /\ History(orders[o].user)[i].amount = orders[o].amount

(* C16: an approvePayment, renewMembership or rejectRenewal whose email     *)
(* send fails after the member was saved is answered as a success (200).    *)
C16_EmailFailureStillSuccess ==
  [][(/\ ops' = ops + 1
      /\ last'.op \in {"approvePayment", "renewMembership", "rejectRenewal"}
      /\ last'.path = "email")
       => last'.code = 200]_vars

(* the step is one run of checkExpiredSubscriptions *)
SweepStep == ops' = ops /\ last'.op = "sweep"

(* C17: after a run of checkExpiredSubscriptions every member whose endDate *)
(* had passed and who was not expired is expired, also when an email send   *)
(* of the run failed.                                                       *)
C17_SweepCompleteness ==
  [][SweepStep
       => \A u \in DOMAIN users :
            isExpiredUser(users[u]) => users'[u].subscriptionStatus = "expired"]_vars

(* C18: a run of checkExpiredSubscriptions writes nothing to and sends no   *)
(* 'expired' email for a member that is already expired, and every email it *)
(* sends goes to a member this run turned from not expired into expired;    *)
(* a run that directly follows a completed run changes no member and sends  *)
(* nothing.                                                                 *)
C18_SweepIdempotent ==
  [][SweepStep
       => /\ \A u \in DOMAIN users :
               users[u].subscriptionStatus = "expired"
                 => (users'[u] = users[u] /\ u \notin mail')
          /\ \A u \in mail' :
               /\ users[u].subscriptionStatus # "expired"
               /\ users'[u].subscriptionStatus = "expired"
          /\ (last.op = "sweep" /\ last.path = "end")
               => (users' = users /\ mail' = {})]_vars

(* a run found a member it had expired and notified in the run before, and  *)
(* did nothing                                                              *)
C18_Witness ==
  /\ last.op = "sweep" /\ last.path = "end"
  /\ mail = {}
  /\ \E u \in DOMAIN users :
       /\ users[u].subscriptionStatus = "expired"
       /\ users[u].endDate < now
       /\ ~users[u].isDeleted
       /\ Len(users[u].renewals) = 0
  /\ ops = 2

(* C19: a member created by register has paymentStatus pending,             *)
(* subscriptionStatus pending and an empty membershipHistory.               *)
C19_RegistrationState ==
  [][\A v \in (DOMAIN users') \ (DOMAIN users) :
       /\ users'[v].paymentStatus = "pending"
       /\ users'[v].subscriptionStatus = "pending"
       /\ users'[v].membershipHistory = <<>>]_vars

(* C20: for a member registered with cash whose registration was approved   *)
(* (one confirmed cash entry of the joining plan's price) and who then      *)
(* submitted one renewal to another plan with online payment, the order of  *)
(* that renewal has the new plan's price, and its webhook confirmation      *)
(* leaves the order paid, the member on the new plan, active and confirmed, *)
(* the ledger with exactly the two confirmed entries (old price, then new   *)
(* price) and originalJoinDate at the registration start date.              *)
C20_JoinThenOnlineRenewal ==
  [][\A o \in DOMAIN orders :
       LET u == orders[o].user IN
       (/\ MarkPaidStep(o)
        /\ last.op = "renewMembership" /\ last.order = o /\ last.user = u
        /\ Len(users[u].renewals) = 1
        /\ users[u].renewals[1].paymentMethod = "online"
        /\ Len(History(u)) = 1
        /\ History(u)[1].paymentMode = "cash"
        /\ History(u)[1].type = "join"
        /\ History(u)[1].plan = users[u].renewals[1].previousPlan
        /\ History(u)[1].paymentStatus = "confirmed")
       => /\ orders[o].amount = defaultPrices(users[u].renewals[1].plan)
          /\ orders'[o].status = "paid"
          /\ orders'[o].amount = orders[o].amount
          /\ users'[u].plan = users[u].renewals[1].plan
          /\ users'[u].subscriptionStatus = "active"
          /\ users'[u].paymentStatus = "confirmed"
          /\ Len(users'[u].membershipHistory) = 2
          /\ \A i \in 1..2 : users'[u].membershipHistory[i].paymentStatus = "confirmed"
          /\ users'[u].membershipHistory[1].amount
               = defaultPrices(users[u].renewals[1].previousPlan)
          /\ users'[u].membershipHistory[2].amount
               = defaultPrices(users[u].renewals[1].plan)
          /\ \E w \in JoinWindows : users'[u].originalJoinDate = w[1]]_vars

(* the scenario ran: 1month by cash, approval, renewal to yearly online,    *)
(* webhook confirmation                                                     *)
C20_Witness ==
  \E o \in DOMAIN orders :
    LET u == orders[o].user IN
    /\ last.op = "markPaid" /\ last.order = o /\ last.path = "end"
    /\ ops = 4
    /\ orders[o].status = "paid" /\ orders[o].amount = 8000
    /\ users[u].plan = "yearly"
    /\ Len(users[u].renewals) = 1
    /\ users[u].renewals[1].previousPlan = "1month"
    /\ Len(History(u)) = 2
    /\ History(u)[1].amount = 1500 /\ History(u)[1].paymentMode = "cash"
    /\ History(u)[2].amount = 8000
    /\ users[u].originalJoinDate = 0
    /\ users[u].startDate # users[u].originalJoinDate

(* C21: an order created after the clock has advanced past every earlier    *)
(* updateSettings is priced at the plan's price in the Settings document.   *)
C21_HotReloadPricing ==
  [][(/\ ops' = ops + 1
      /\ last.op = "tick"
      /\ last'.op = "createPayment" /\ last'.code = 201)
       => orders'[last'.order].amount
            = settings[orders'[last'.order].meta.plan]]_vars

(* C22: verifyRenewalToken and renewMembership answer a wrongly signed and  *)
(* a time-expired token alike, with 401 and 'Invalid or expired token', and *)
(* change no member and no order.                                           *)
C22_UniformTokenFailure ==
  [][(/\ ops' = ops + 1
      /\ last'.op \in {"verifyRenewalToken", "renewMembership"}
      /\ hdr' \in {"badsignature", "expired"})
       => /\ last'.code = 401
          /\ last'.path = "Invalid or expired token"
          /\ last'.user = NoId
          /\ users' = users
          /\ orders' = orders]_vars

(* an expired token was refused for a renewal while a member existed *)
C22_Witness ==
  /\ last.op = "renewMembership" /\ last.code = 401
  /\ hdr = "expired"
  /\ Len(users) > 0

(* C23: a renewMembership that reached its save sets plan, payment method   *)
(* and window to the requested values and both statuses to pending, appends *)
(* exactly one renewals entry that carries the requested plan and the plan  *)
(* and price the member had before, and leaves membershipHistory unchanged. *)
C23_RenewalNoRevenue ==
  [][\A u \in DOMAIN users :
       (Served("renewMembership", u) /\ last'.path \in {"end", "email"})
       => /\ <<users'[u].plan, users'[u].paymentMethod>> \in RenewInputs
          /\ <<users'[u].startDate, users'[u].endDate>> \in RenewWindows
          /\ users'[u].paymentStatus = "pending"
          /\ users'[u].subscriptionStatus = "pending"
          /\ Len(users'[u].renewals) = Len(users[u].renewals) + 1
          /\ IsPrefix(users[u].renewals, users'[u].renewals)
          /\ LET r == users'[u].renewals[Len(users'[u].renewals)] IN
               /\ r.plan = users'[u].plan
               /\ r.startDate = users'[u].startDate
               /\ r.endDate = users'[u].endDate
               /\ r.previousPlan = users[u].plan
               /\ r.previousAmount = defaultPrices(users[u].plan)
          /\ users'[u].membershipHistory = History(u)]_vars

(* a confirmed member on one plan has just submitted a renewal to another *)
C23_Witness ==
  \E u \in DOMAIN users :
    /\ last.op = "renewMembership" /\ last.user = u /\ last.code = 200
    /\ Len(users[u].renewals) = 1
    /\ users[u].renewals[1].previousPlan # users[u].plan
    /\ users[u].renewals[1].previousAmount # users[u].renewals[1].newAmount
    /\ Len(History(u)) = 1
    /\ users[u].paymentStatus = "pending"

(* positions of the confirmed entries of member u's ledger *)
ConfirmedAt(u) ==
  {i \in DOMAIN History(u) : History(u)[i].paymentStatus = "confirmed"}

(* C24: a member whose paymentStatus is confirmed and whose ledger has a    *)
(* confirmed entry is on the plan of the last confirmed entry.              *)
C24_PlanFollowsLedger ==
  \A u \in DOMAIN users :
    (users[u].paymentStatus = "confirmed" /\ ConfirmedAt(u) # {})
      => \E i \in ConfirmedAt(u) :
           /\ \A j \in ConfirmedAt(u) : j <= i
           /\ users[u].plan = History(u)[i].plan

(* C25: when a markPaymentPaid was interrupted after it had saved the order *)
(* as paid, the next markPaymentPaid for that order leaves the order's      *)
(* member confirmed with a ledger entry of the order's amount and reference *)
C25_RetryReconciles ==
  [][\A o \in DOMAIN orders :
       (/\ last.op = "markPaid" /\ last.path = "interrupted" /\ last.order = o
        /\ orders[o].status = "paid"
        /\ Exists(orders[o].user)
        /\ MarkPaidStep(o))
       => /\ users'[orders[o].user].paymentStatus = "confirmed"
          /\ \E i \in DOMAIN users'[orders[o].user].membershipHistory :
               /\ users'[orders[o].user].membershipHistory[i].amount
                    = orders[o].amount
               /\ users'[orders[o].user].membershipHistory[i].transactionId
                    = orders[o].transactionRef]_vars

(* C26: in every state each member's renewalCount is the number of entries  *)
(* of its renewals.                                                         *)
C26_RenewalCountMatches ==
  \A u \in DOMAIN users : users[u].renewalCount = Len(users[u].renewals)

(* C27: the ledger entry a markPaymentPaid appends records the plan the     *)
(* order was created for (meta.plan) and that plan's number of months.      *)
C27_EntryPlanMatchesOrder ==
  [][\A o \in DOMAIN orders :
       (MarkPaidStep(o) /\ orders[o].status # "paid" /\ Exists(orders[o].user))
       => LET u == orders[o].user
              e == users'[u].membershipHistory[Len(users'[u].membershipHistory)]
          IN /\ Len(users'[u].membershipHistory) = Len(History(u)) + 1
             /\ e.plan = orders[o].meta.plan
             /\ e.duration = planToMonths(orders[o].meta.plan)]_vars

(* C28: no step changes the subscriptionStatus of a deleted member away     *)
(* from expired or appends to its ledger.                                   *)
C28_DeletedStaysInactive ==
  [][\A u \in DOMAIN users :
       (users[u].isDeleted /\ users[u].subscriptionStatus = "expired")
       => /\ users'[u].subscriptionStatus = "expired"
          /\ users'[u].membershipHistory = History(u)]_vars

(* C29: an order becomes paid only from status created and only before its  *)
(* expiresAt; a markPaymentPaid on a failed or lapsed order leaves the      *)
(* order and its member as they were.                                       *)
C29_ExpiryAndFailureFinal ==
  [][\A o \in DOMAIN orders :
       /\ (orders[o].status # "paid" /\ orders'[o].status = "paid")
          => (orders[o].status = "created" /\ now < orders[o].expiresAt)
       /\ (MarkPaidStep(o) /\ Exists(orders[o].user)
           /\ (orders[o].status = "failed" \/ now >= orders[o].expiresAt)
           /\ orders[o].status # "paid")
          => (orders'[o] = orders[o]
              /\ users'[orders[o].user] = users[orders[o].user])]_vars

(* C30: while an email holds MAX_LOGIN_ATTEMPTS failures younger than       *)
(* LOGIN_TIMEOUT every login for it is rejected, and once the timeout has   *)
(* passed the count restarts: a failed login then leaves a count of one.    *)
LoginStep(e) == ops' = ops + 1 /\ last'.op = "login" /\ hdr' = e

C30_LockoutResets ==
  [][\A e \in Emails :
       /\ (LoginStep(e) /\ loginLocked(e)) => last'.code = 429
       /\ (LoginStep(e) /\ last'.code = 401
           /\ loginAttempts[e].count >= MAX_LOGIN_ATTEMPTS)
          => (loginAttempts'[e].count = 1
              /\ loginAttempts'[e].count < MAX_LOGIN_ATTEMPTS)]_vars
====
